---- MODULE Spec2Model ----
(***************************************************************************)
(* Model of the dashboard client of static/js/main.js: the value formatter *)
(* (formatSignedValue), the chart renderer (renderChart), the performance  *)
(* controllers, the news/article builders and the page wiring, together    *)
(* with the environment they talk to (the fetch responses, the Chart       *)
(* library's constructor and destroy operation, the user's submits).       *)
(*                                                                         *)
(* Texts are sequences of one-character strings, so that formatting and    *)
(* parsing are computed character by character.  Numbers are sign and      *)
(* magnitude, the magnitude counted in units of 10^-FracDigits, so that    *)
(* the IEEE negative zero (parseFloat("-0.00")) is a value of its own.     *)
(***************************************************************************)
EXTENDS Integers, Sequences, FiniteSets, TLC

\* ------------------------------------------------------------- bounds
\* decimal places carried by the model's numbers
FracDigits == 4
\* formatSignedValue is applied with digits in 0..MaxDigits
MaxDigits == 3

\* ------------------------------------------------------- JS values
Num(neg, mag) == [t |-> "num", neg |-> neg, mag |-> mag, s |-> <<>>]
Str(s)        == [t |-> "str", neg |-> FALSE, mag |-> 0, s |-> s]
NaN           == [t |-> "nan", neg |-> FALSE, mag |-> 0, s |-> <<>>]
Undefined     == [t |-> "undef", neg |-> FALSE, mag |-> 0, s |-> <<>>]
Null          == [t |-> "null", neg |-> FALSE, mag |-> 0, s |-> <<>>]
Bool(b)       == [t |-> "bool", neg |-> FALSE, mag |-> IF b THEN 1 ELSE 0, s |-> <<>>]

RECURSIVE Pow10(_)
Pow10(n) == IF n = 0 THEN 1 ELSE 10 * Pow10(n - 1)

Unit == Pow10(FracDigits)

DigitChars == <<"0", "1", "2", "3", "4", "5", "6", "7", "8", "9">>
IsDigit(c) == \E i \in 1..10 : DigitChars[i] = c
DigitVal(c) == (CHOOSE i \in 1..10 : DigitChars[i] = c) - 1

RECURSIVE NatToText(_)
NatToText(n) ==
    IF n < 10 THEN <<DigitChars[n + 1]>>
    ELSE NatToText(n \div 10) \o <<DigitChars[(n % 10) + 1]>>

RECURSIVE PadLeft(_, _)
PadLeft(txt, width) == IF Len(txt) >= width THEN txt ELSE PadLeft(<<"0">> \o txt, width)

\* String.prototype.startsWith with a one-character argument
startsWith(txt, c) == Len(txt) > 0 /\ txt[1] = c

\* String.prototype.replace(c, "") with a string pattern: the FIRST occurrence only
replaceFirst(txt, c) ==
    IF \E i \in 1..Len(txt) : txt[i] = c
    THEN LET i == CHOOSE k \in 1..Len(txt) : txt[k] = c /\ \A j \in 1..(k - 1) : txt[j] # c
         IN  SubSeq(txt, 1, i - 1) \o SubSeq(txt, i + 1, Len(txt))
    ELSE txt

\* String.prototype.trim
RECURSIVE trim(_)
trim(txt) ==
    IF Len(txt) > 0 /\ txt[1] = " " THEN trim(Tail(txt))
    ELSE IF Len(txt) > 0 /\ txt[Len(txt)] = " " THEN trim(SubSeq(txt, 1, Len(txt) - 1))
    ELSE txt

\* length of the run of decimal digits of txt that starts at index i
RECURSIVE DigitRun(_, _)
DigitRun(txt, i) ==
    IF i <= Len(txt) /\ IsDigit(txt[i]) THEN 1 + DigitRun(txt, i + 1) ELSE 0

\* value of the digits txt[i .. i+n-1] read as a natural number
RECURSIVE DigitsValue(_, _, _)
DigitsValue(txt, i, n) ==
    IF n = 0 THEN 0 ELSE 10 * DigitsValue(txt, i, n - 1) + DigitVal(txt[i + n - 1])

\* the first FracDigits fractional digits txt[i .. i+n-1], in units of 10^-FracDigits
FracValue(txt, i, n) ==
    IF n >= FracDigits THEN DigitsValue(txt, i, FracDigits)
    ELSE DigitsValue(txt, i, n) * Pow10(FracDigits - n)

\* parseFloat: leading white space skipped, then the longest prefix that is a
\* signed decimal literal; NaN when that prefix holds no digit
parseFloat(txt) ==
    LET t0    == trim(txt)
        signed == Len(t0) > 0 /\ t0[1] \in {"+", "-"}
        neg   == signed /\ t0[1] = "-"
        i     == IF signed THEN 2 ELSE 1
        nInt  == DigitRun(t0, i)
        dot   == (i + nInt <= Len(t0)) /\ t0[i + nInt] = "."
        nFrac == IF dot THEN DigitRun(t0, i + nInt + 1) ELSE 0
    IN  IF nInt = 0 /\ nFrac = 0 THEN NaN
        ELSE Num(neg, DigitsValue(t0, i, nInt) * Unit + FracValue(t0, i + nInt + 1, nFrac))

\* the global isNaN(x): ToNumber(x) is NaN
isNaN(v) == v.t \in {"nan", "undef"}

\* x >= 0 after ToNumber (null -> 0, true -> 1, false -> 0, -0 >= 0)
geZero(v) == IF v.t = "num" THEN (~v.neg \/ v.mag = 0) ELSE TRUE

\* Number.prototype.toFixed(d): the sign is that of x < 0, taken before rounding;
\* the magnitude is rounded to the nearest multiple of 10^-d, ties upward
toFixed(v, d) ==
    LET n == IF d <= FracDigits
             THEN (2 * v.mag + Pow10(FracDigits - d)) \div (2 * Pow10(FracDigits - d))
             ELSE v.mag * Pow10(d - FracDigits)
        ip == NatToText(n \div Pow10(d))
        fp == IF d = 0 THEN <<>> ELSE <<".">> \o PadLeft(NatToText(n % Pow10(d)), d)
    IN  (IF v.neg /\ v.mag > 0 THEN <<"-">> ELSE <<>>) \o ip \o fp

Returned(txt) == [thrown |-> FALSE, text |-> txt]
TypeError     == [thrown |-> TRUE, text |-> <<>>]

\* mutant: the sign prefix left out
formatSignedValueNoPlus(val, digits, isPercent) ==
    LET num == IF val.t = "str" THEN parseFloat(replaceFirst(val.s, "%")) ELSE val
    IN  IF isNaN(num)
        THEN Returned(IF isPercent THEN <<"+", "0", ".", "0", "0", "%">> ELSE <<"+", "0", ".", "0", "0">>)
        ELSE IF num.t # "num" THEN TypeError
        ELSE Returned(toFixed(num, digits) \o (IF isPercent THEN <<"%">> ELSE <<>>))

\* a formatter that would take the sign from the sign bit, so that a negative
\* zero gets no "+"
formatSignedValueSignBit(val, digits, isPercent) ==
    LET num == IF val.t = "str" THEN parseFloat(replaceFirst(val.s, "%")) ELSE val
    IN  IF isNaN(num)
        THEN Returned(IF isPercent THEN <<"+", "0", ".", "0", "0", "%">> ELSE <<"+", "0", ".", "0", "0">>)
        ELSE IF num.t # "num" THEN TypeError
        ELSE Returned((IF ~num.neg THEN <<"+">> ELSE <<>>)
                      \o toFixed(num, digits) \o (IF isPercent THEN <<"%">> ELSE <<>>))

formatSignedValue(val, digits, isPercent) ==
    LET num == IF val.t = "str" THEN parseFloat(replaceFirst(val.s, "%")) ELSE val
    IN  IF isNaN(num)
        THEN Returned(IF isPercent THEN <<"+", "0", ".", "0", "0", "%">> ELSE <<"+", "0", ".", "0", "0">>)
        ELSE IF num.t # "num" THEN TypeError   \* null.toFixed / true.toFixed
        ELSE Returned((IF geZero(num) THEN <<"+">> ELSE <<>>)
                      \o toFixed(num, digits) \o (IF isPercent THEN <<"%">> ELSE <<>>))

\* Number::toString for the values at hand: no sign for a zero, the fraction
\* without its trailing zeros
RECURSIVE StripZeros(_)
StripZeros(txt) ==
    IF Len(txt) > 0 /\ txt[Len(txt)] = "0" THEN StripZeros(SubSeq(txt, 1, Len(txt) - 1)) ELSE txt

NumToText(v) ==
    LET fr == StripZeros(PadLeft(NatToText(v.mag % Unit), FracDigits))
    IN  (IF v.neg /\ v.mag > 0 THEN <<"-">> ELSE <<>>)
        \o NatToText(v.mag \div Unit)
        \o (IF fr = <<>> THEN <<>> ELSE <<".">> \o fr)

\* ------------------------------------------------------- the document
\* the four metrics, named as the payload names them
Metrics  == <<"relative_performance", "moving_z_score", "alpha", "cumulative_alpha">>
MetricSet == {Metrics[i] : i \in 1..4}
Canvases == <<"relativePerformanceChart", "movingZScoreChart", "alphaChart", "cumulativeAlphaChart">>
CanvasSet == {Canvases[i] : i \in 1..4}

\* submits (a click of the button, or an Enter key in the input) in one run
MaxSubmits == 1
\* calls of loadFmpArticles, beyond that of the page load, outstanding together
MaxFmpCalls == 2
\* the default ticker of the page load
IBM == <<"I", "B", "M">>

VARIABLES
    fmtArgs,        \* the arguments of the formatSignedValue call under study
    fmtResult,      \* what that call returned (or that it threw)
    phase,          \* "parsed" before DOMContentLoaded, "ready" after it
    canvasEls,      \* the canvas elements the document holds
    valueText,      \* textContent of the four value slots
    changeText,     \* textContent of the four change slots
    containerClass, \* positive/negative on each change slot's parentElement
    spanClass,      \* positive/negative on each change slot's own span
    currentTicker,  \* window.currentTicker
    charts,         \* window.charts: canvas id -> registered instance
    insts,          \* every Chart instance constructed so far
    newsTitle,      \* textContent of #ticker-news-section-title
    newsBody,       \* contents of #ticker-news-container
    fmpBody,        \* contents of #fmp-articles-container
    submits,        \* the number of submits so far
    clicks,         \* the normalised ticker of every click event so far
    pending,        \* the fetches in flight, each with the call awaiting it
    escaped,        \* the calls whose promise was rejected (exception not caught)
    last            \* the handler that ran last, with what it called

vars == <<fmtArgs, fmtResult, phase, canvasEls, valueText, changeText, containerClass,
          spanClass, currentTicker, charts, insts, newsTitle, newsBody, fmpBody,
          submits, clicks, pending, escaped, last>>


\* ------------------------------------------------- the backend's answers
Metric(value, change, dates, values) ==
    [present |-> TRUE, value |-> value, change |-> change, dates |-> dates, values |-> values]
NoMetric == [present |-> FALSE, value |-> Undefined, change |-> Undefined,
             dates |-> <<>>, values |-> <<>>]
\* { value: 0, change: 0, dates: [], values: [] }
Fallback == Metric(Num(FALSE, 0), Num(FALSE, 0), <<>>, <<>>)

\* payloads of /api/performance_charts: (1) formatted strings, the relative
\* performance of the documented example; (2) raw numbers, one metric left out;
\* (3) a null value
PerfPayloads == <<
    [relative_performance |-> Metric(Str(<<"-", "5", ".", "0", "0", "%">>), Str(<<"+", "1", ".", "0", "0", "%">>), <<"Jan">>, <<"-5">>),
     moving_z_score |-> Metric(Str(<<"-", "0", ".", "5", "0">>), Str(<<"+", "0", ".", "1", "0">>), <<"Jan">>, <<"-0.5">>),
     alpha |-> Metric(Str(<<"+", "0", ".", "0", "1", "2">>), Str(<<"-", "0", ".", "0", "0", "3">>), <<"Jan">>, <<"0.012">>),
     cumulative_alpha |-> Metric(Str(<<"+", "1", ".", "2", "0">>), Str(<<"+", "0", ".", "3", "0">>), <<"Jan">>, <<"1.2">>)],
    [relative_performance |-> Metric(Num(FALSE, 12 * Unit + 3456 * (Unit \div 10000)), Num(TRUE, 4 * (Unit \div 1000)), <<"Jan", "Feb">>, <<"12", "12.3">>),
     moving_z_score |-> Metric(Num(TRUE, 5 * (Unit \div 10)), Num(FALSE, Unit \div 10), <<"Jan", "Feb">>, <<"-1", "-0.5">>),
     alpha |-> Metric(Num(FALSE, 125 * (Unit \div 10000)), Num(TRUE, 3 * (Unit \div 1000)), <<"Jan", "Feb">>, <<"0", "0.0125">>),
     cumulative_alpha |-> NoMetric],
    [relative_performance |-> Metric(Null, Num(FALSE, Unit), <<"Jan">>, <<"1">>),
     moving_z_score |-> Metric(Num(FALSE, Unit), Num(FALSE, Unit), <<"Jan">>, <<"1">>),
     alpha |-> Metric(Num(FALSE, Unit), Num(FALSE, Unit), <<"Jan">>, <<"1">>),
     cumulative_alpha |-> Metric(Num(FALSE, Unit), Num(FALSE, Unit), <<"Jan">>, <<"1">>)] >>

\* what a performance fetch can end in: the fetch rejected, a non-2xx status,
\* a body with an error field, or one of the payloads
PerfOutcomes ==
    {[kind |-> k, p |-> 0] : k \in {"reject", "status", "error"}}
    \cup {[kind |-> "data", p |-> i] : i \in 1..Len(PerfPayloads)}

\* bodies of /api/fmp_articles: not an array, or an array of articles (numbered)
\* in which 0 stands for a null entry
ArticlePayloads == {<<>>, <<1>>, <<1, 2>>, <<2, 1>>, <<1, 0>>}
ArticleOutcomes ==
    {[kind |-> k, items |-> <<>>] : k \in {"reject", "status", "notarray"}}
    \cup {[kind |-> "array", items |-> a] : a \in ArticlePayloads}

\* ------------------------------------------------------ chart renderer
NoChart == [fn |-> "none", trig |-> 0, canvas |-> "none"]
NoTitle == <<>>

\* the state of window.charts and of the Chart library while one handler runs.
\* insts holds the Chart instances that are alive (constructed, not destroyed)
\* or still referenced by window.charts; an instance that is destroyed and no
\* longer referenced is garbage and dropped.  renders lists the renderChart
\* calls made, each with the library operations it invoked, in order; thrown
\* says an exception is in flight.
Window(ch, ins) == [charts |-> ch, insts |-> ins, renders |-> <<>>, thrown |-> FALSE]

LiveOn(ins, canvasId) == {j \in DOMAIN ins : j.canvas = canvasId /\ ins[j].destroyed = 0}

Referenced(ch, ins) ==
    {j \in DOMAIN ins : ins[j].destroyed = 0 \/ \E c \in CanvasSet : ch[c] = j}
Collect(w) ==
    [w EXCEPT !.insts = [j \in Referenced(w.charts, w.insts) |-> w.insts[j]]]

Destroyed(id, count) == [op |-> "destroy", id |-> id, n |-> count]
Constructed(id, live) == [op |-> "new", id |-> id, n |-> live]
Rendered(canvasId, data, labels, ops) ==
    [canvas |-> canvasId, data |-> data, labels |-> labels, ops |-> ops]

\* mutant: the registered instance is not destroyed
renderChartNoDestroy(w, id, canvasId, data, labels, ctorThrows, els) ==
    IF canvasId \notin els THEN [w EXCEPT !.renders = Append(@, Rendered(canvasId, data, labels, <<>>))]
    ELSE
    LET newChart == [destroyed |-> 0, data |-> data, labels |-> labels, title |-> NoTitle]
        ops == IF ctorThrows THEN <<>>
               ELSE <<Constructed(id, Cardinality(LiveOn(w.insts, canvasId)))>>
        w1 == [w EXCEPT !.renders = Append(@, Rendered(canvasId, data, labels, ops))]
    IN  IF ctorThrows
        THEN [w1 EXCEPT !.thrown = TRUE]
        ELSE Collect([w1 EXCEPT !.insts = (id :> newChart) @@ w.insts,
                                !.charts = [@ EXCEPT ![canvasId] = id]])

\* the declaration of renderChart in force: the later of the two function
\* declarations of the script (the earlier one, with the title, the try/catch
\* and the registry entry reset to null, is replaced by it when the script is
\* evaluated).  ctorThrows: the Chart constructor throws in this call.
\* Constructed(id, n): n instances were alive on the canvas when id was built.
renderChart(w, id, canvasId, data, labels, ctorThrows, els) ==
    IF canvasId \notin els THEN [w EXCEPT !.renders = Append(@, Rendered(canvasId, data, labels, <<>>))]
    ELSE
    LET old == w.charts[canvasId]
        afterDestroy == IF old # NoChart
                        THEN [w.insts EXCEPT ![old].destroyed = @ + 1]
                        ELSE w.insts
        newChart == [destroyed |-> 0, data |-> data, labels |-> labels, title |-> NoTitle]
        ops == (IF old # NoChart THEN <<Destroyed(old, afterDestroy[old].destroyed)>> ELSE <<>>)
               \o (IF ctorThrows THEN <<>>
                   ELSE <<Constructed(id, Cardinality(LiveOn(afterDestroy, canvasId)))>>)
        w1 == [w EXCEPT !.renders = Append(@, Rendered(canvasId, data, labels, ops))]
    IN  IF ctorThrows
        THEN [w1 EXCEPT !.insts = afterDestroy, !.thrown = TRUE]
        ELSE Collect([w1 EXCEPT !.insts = (id :> newChart) @@ afterDestroy,
                                !.charts = [@ EXCEPT ![canvasId] = id]])

\* renderChart for the canvases i..4 in turn, as the four consecutive calls of a
\* controller: an exception leaving one call skips the calls after it
RECURSIVE RenderFrom(_, _, _, _, _, _, _)
RenderFrom(w, i, fn, trig, series, failAt, els) ==
    IF i > Len(Canvases) \/ w.thrown THEN w
    ELSE RenderFrom(renderChart(w, [fn |-> fn, trig |-> trig, canvas |-> Canvases[i]],
                                Canvases[i], series[i].values, series[i].dates,
                                Canvases[i] = failAt, els),
                    i + 1, fn, trig, series, failAt, els)

\* ------------------------------------------- performance controller (new)
\* digits and isPercent of the formatSignedValue calls, per metric
FormatDigits == [relative_performance |-> 2, moving_z_score |-> 2, alpha |-> 3, cumulative_alpha |-> 2]
FormatPercent == [relative_performance |-> TRUE, moving_z_score |-> FALSE, alpha |-> FALSE,
                  cumulative_alpha |-> FALSE]

toggle(classes, name, force) == IF force THEN classes \cup {name} ELSE classes \ {name}

\* mutant: the class chosen by the sign of the value string
updateChartCardTextOnlyByValue(d, m, valueStr, changeStr) ==
    [d EXCEPT !.valueText[m] = trim(valueStr),
              !.changeText[m] = trim(changeStr),
              !.containerClass[m] =
                  (@ \ {"positive", "negative"})
                  \cup (IF startsWith(valueStr, "-") THEN {"negative"} ELSE {"positive"})]

\* mutant: the class added without the other one removed
updateChartCardTextOnlyNoRemove(d, m, valueStr, changeStr) ==
    [d EXCEPT !.valueText[m] = trim(valueStr),
              !.changeText[m] = trim(changeStr),
              !.containerClass[m] =
                  @ \cup (IF startsWith(changeStr, "-") THEN {"negative"} ELSE {"positive"})]

\* both elements exist in the template and both arguments are strings
updateChartCardTextOnly(d, m, valueStr, changeStr) ==
    [d EXCEPT !.valueText[m] = trim(valueStr),
              !.changeText[m] = trim(changeStr),
              !.containerClass[m] =
                  (@ \ {"positive", "negative"})
                  \cup (IF startsWith(changeStr, "-") THEN {"negative"} ELSE {"positive"})]

RECURSIVE UpdateCards(_, _, _)
UpdateCards(d, i, f) ==
    IF i > Len(Metrics) THEN d
    ELSE UpdateCards(updateChartCardTextOnly(d, Metrics[i], f[Metrics[i]].val.text,
                                             f[Metrics[i]].chg.text), i + 1, f)

\* apiData?.metric || fallback, apiData being null unless the outcome is a payload
MetricData(out, m) ==
    IF out.kind = "data" /\ PerfPayloads[out.p][m].present
    THEN PerfPayloads[out.p][m] ELSE Fallback

Formatted(out) ==
    [m \in MetricSet |->
        [val |-> formatSignedValue(MetricData(out, m).value, FormatDigits[m], FormatPercent[m]),
         chg |-> formatSignedValue(MetricData(out, m).change, FormatDigits[m], FormatPercent[m])]]

\* the eight formatted strings of every outcome
FormattedTable == [out \in PerfOutcomes |-> Formatted(out)]

TickerOf(trig) == IF trig = 0 THEN IBM ELSE clicks[trig]

Call(fn, trig) == [fn |-> fn, trig |-> trig]

Ran(op, trig, kind, p, renders, threw) ==
    [op |-> op, trig |-> trig, kind |-> kind, p |-> p, renders |-> renders, threw |-> threw]

\* loadPerformanceDataAndRenderCharts from the settling of its fetch to its end
loadPerformanceDataAndRenderCharts(trig, out, failAt) ==
    /\ phase = "ready"
    /\ Call("perf", trig) \in pending
    /\ pending' = pending \ {Call("perf", trig)}
    /\ LET f == FormattedTable[out]
           fmtThrew == \E m \in MetricSet : f[m].val.thrown \/ f[m].chg.thrown
           d == UpdateCards([valueText |-> valueText, changeText |-> changeText,
                             containerClass |-> containerClass], 1, f)
           w == RenderFrom(Window(charts, insts), 1, "perf", trig,
                           [i \in 1..Len(Metrics) |-> MetricData(out, Metrics[i])],
                           failAt, canvasEls)
       IN  IF fmtThrew
           THEN /\ escaped' = escaped \cup {Call("perf", trig)}
                /\ last' = Ran("perf", trig, out.kind, out.p, <<>>, TRUE)
                /\ UNCHANGED <<valueText, changeText, containerClass, currentTicker, charts, insts>>
           ELSE /\ valueText' = d.valueText
                /\ changeText' = d.changeText
                /\ containerClass' = d.containerClass
                /\ currentTicker' = TickerOf(trig)
                /\ charts' = w.charts
                /\ insts' = w.insts
                /\ escaped' = IF w.thrown THEN escaped \cup {Call("perf", trig)} ELSE escaped
                /\ last' = Ran("perf", trig, out.kind, out.p, w.renders, w.thrown)
    /\ UNCHANGED <<fmtArgs, fmtResult, phase, canvasEls, spanClass, newsTitle, newsBody,
                   fmpBody, submits, clicks>>


\* ------------------------------------------- performance controller (old)
\* what an element shows after textContent = v
ToText(v) ==
    CASE v.t = "str"   -> v.s
      [] v.t = "num"   -> NumToText(v)
      [] v.t = "null"  -> <<>>
      [] v.t = "bool"  -> IF v.mag = 1 THEN <<"t", "r", "u", "e">> ELSE <<"f", "a", "l", "s", "e">>
      [] OTHER         -> <<"u", "n", "d", "e", "f", "i", "n", "e", "d">>

\* generateDummyChartData: six random points, whatever the value fetched
DummyData == [i \in 1..6 |-> "random"]
chartLabels == <<"Jan", "Mar", "May", "Jul", "Sep", "Nov">>

\* the statements of loadPerformanceCharts for one card, in order; a TypeError
\* (a metric left out, .replace or .startsWith of a value that is no string)
\* ends the run with the earlier statements done.  The relative-performance
\* card strips '+' from both texts and takes both classes from the value; the
\* z-score card shows the value as it is, strips '-' from the change and is
\* positive unless the change is negative; the alpha cards show the value as
\* it is, strip '+' from the change and take the classes from the change.
OldCard(d, m, mt) ==
    IF d.thrown THEN d
    ELSE IF ~mt.present THEN [d EXCEPT !.thrown = TRUE]
    ELSE IF m = "relative_performance" /\ mt.value.t # "str" THEN [d EXCEPT !.thrown = TRUE]
    ELSE
    LET d1 == [d EXCEPT !.valueText[m] = IF m = "relative_performance"
                                         THEN replaceFirst(mt.value.s, "+")
                                         ELSE ToText(mt.value)]
        strip == IF m = "moving_z_score" THEN "-" ELSE "+"
        by == IF m = "relative_performance" THEN mt.value.s ELSE mt.change.s
        pos == IF m = "moving_z_score" THEN ~startsWith(by, "-") ELSE startsWith(by, "+")
    IN  IF mt.change.t # "str" THEN [d1 EXCEPT !.thrown = TRUE]
        ELSE [d1 EXCEPT !.changeText[m] = replaceFirst(mt.change.s, strip),
                        !.spanClass[m] = toggle(toggle(@, "positive", pos),
                                                "negative", startsWith(by, "-"))]

RECURSIVE OldCards(_, _, _)
OldCards(d, i, payload) ==
    IF i > Len(Metrics) THEN d
    ELSE OldCards(OldCard(d, Metrics[i], payload[Metrics[i]]), i + 1, payload)

\* loadPerformanceCharts from the settling of its fetch to its end.  It does not
\* look at response.ok; the body of a non-2xx answer is taken to be an error
\* object or no JSON at all, which both end the run without an effect.  Every
\* exception is caught by its try/catch.
loadPerformanceCharts(trig, out, failAt) ==
    /\ phase = "ready"
    /\ Call("perfOld", trig) \in pending
    /\ pending' = pending \ {Call("perfOld", trig)}
    /\ LET d == OldCards([valueText |-> valueText, changeText |-> changeText,
                          spanClass |-> spanClass, thrown |-> FALSE], 1, PerfPayloads[out.p])
           w == RenderFrom(Window(charts, insts), 1, "perfOld", trig,
                           [i \in 1..Len(Metrics) |-> [values |-> DummyData, dates |-> chartLabels]],
                           failAt, canvasEls)
       IN  IF out.kind # "data"
           THEN /\ last' = Ran("perfOld", trig, out.kind, out.p, <<>>, FALSE)
                /\ UNCHANGED <<valueText, changeText, spanClass, charts, insts>>
           ELSE /\ valueText' = d.valueText
                /\ changeText' = d.changeText
                /\ spanClass' = d.spanClass
                /\ charts' = IF d.thrown THEN charts ELSE w.charts
                /\ insts' = IF d.thrown THEN insts ELSE w.insts
                /\ last' = Ran("perfOld", trig, out.kind, out.p,
                               IF d.thrown THEN <<>> ELSE w.renders, FALSE)
    /\ UNCHANGED <<fmtArgs, fmtResult, phase, canvasEls, containerClass, currentTicker,
                   newsTitle, newsBody, fmpBody, submits, clicks, escaped>>

\* ------------------------------------------------------ news and articles
Shown(kind, ticker, items) == [kind |-> kind, ticker |-> ticker, items |-> items]
NoTicker == <<>>

HasNull(items) == \E i \in 1..Len(items) : items[i] = 0

\* the cards (or list entries) built before the first null entry
RECURSIVE UpToNull(_)
UpToNull(items) ==
    IF items = <<>> \/ items[1] = 0 THEN <<>> ELSE <<items[1]>> \o UpToNull(Tail(items))

\* a loadTickerNews that would take the ticker of its messages from the section
\* title (shared state) and not from its own argument
loadTickerNewsByTitle(trig, out) ==
    /\ phase = "ready"
    /\ Call("news", trig) \in pending
    /\ pending' = pending \ {Call("news", trig)}
    /\ newsBody' =
          IF out.kind \in {"reject", "status"} THEN Shown("failed", newsTitle, <<>>)
          ELSE IF out.kind = "array" /\ Len(out.items) > 0
               THEN IF HasNull(out.items) THEN Shown("failed", newsTitle, <<>>)
                    ELSE Shown("list", newsTitle,
                               [i \in 1..Len(out.items) |-> [n |-> i, article |-> out.items[i]]])
               ELSE Shown("none", newsTitle, <<>>)
    /\ last' = Ran("news", trig, out.kind, Len(out.items), out.items, FALSE)
    /\ UNCHANGED <<fmtArgs, fmtResult, phase, canvasEls, valueText, changeText, containerClass,
                   spanClass, currentTicker, charts, insts, newsTitle, fmpBody, submits, clicks, escaped>>

\* a loadTickerNews that would leave the loading placeholder in place when the
\* answer holds no article
loadTickerNewsStuck(trig, out) ==
    /\ phase = "ready"
    /\ Call("news", trig) \in pending
    /\ pending' = pending \ {Call("news", trig)}
    /\ newsBody' =
          IF out.kind \in {"reject", "status"} THEN Shown("failed", TickerOf(trig), <<>>)
          ELSE IF out.kind = "array" /\ Len(out.items) > 0
               THEN IF HasNull(out.items) THEN Shown("failed", TickerOf(trig), <<>>)
                    ELSE Shown("list", TickerOf(trig),
                               [i \in 1..Len(out.items) |-> [n |-> i, article |-> out.items[i]]])
               ELSE newsBody
    /\ last' = Ran("news", trig, out.kind, Len(out.items), out.items, FALSE)
    /\ UNCHANGED <<fmtArgs, fmtResult, phase, canvasEls, valueText, changeText, containerClass,
                   spanClass, currentTicker, charts, insts, newsTitle, fmpBody, submits, clicks, escaped>>

\* the text of #ticker-news-section-title and of #ticker-news-container
TitleText(ticker) == <<"N", "e", "w", "s", " ", "f", "o", "r", " ">> \o ticker \o <<" ", "(", "l", "a", "s", "t", " ", "3", "0", " ", "d", "a", "y", "s", ")", ":">>
ContainerText(body) ==
    CASE body.kind = "loading" -> <<"L", "o", "a", "d", "i", "n", "g", ".", ".", ".">>
      [] body.kind = "none"    -> <<"N", "o", " ", "n", "e", "w", "s", " ", "f", "o", "u", "n", "d", " ", "f", "o", "r", " ">> \o body.ticker \o <<".">>
      [] body.kind = "failed"  -> <<"F", "a", "i", "l", "e", "d", " ", "t", "o", " ", "l", "o", "a", "d", " ", "n", "e", "w", "s", " ", "f", "o", "r", " ">> \o body.ticker \o <<".">>
      [] body.kind = "prompt"  -> <<"P", "l", "e", "a", "s", "e", " ", "e", "n", "t", "e", "r", " ", "a", " ", "s", "t", "o", "c", "k", " ", "t", "i", "c", "k", "e", "r", ".">>
      [] OTHER                 -> <<>>

\* loadTickerNews from the settling of its fetch to its end: every exception,
\* that of a null entry included, is caught and ends in the failure message
loadTickerNews(trig, out) ==
    /\ phase = "ready"
    /\ Call("news", trig) \in pending
    /\ pending' = pending \ {Call("news", trig)}
    /\ newsBody' =
          IF out.kind \in {"reject", "status"} THEN Shown("failed", TickerOf(trig), <<>>)
          ELSE IF out.kind = "array" /\ Len(out.items) > 0
               THEN IF HasNull(out.items) THEN Shown("failed", TickerOf(trig), <<>>)
                    ELSE Shown("list", TickerOf(trig),
                               [i \in 1..Len(out.items) |-> [n |-> i, article |-> out.items[i]]])
               ELSE Shown("none", TickerOf(trig), <<>>)
    /\ last' = Ran("news", trig, out.kind, Len(out.items), out.items, FALSE)
    /\ UNCHANGED <<fmtArgs, fmtResult, phase, canvasEls, valueText, changeText, containerClass,
                   spanClass, currentTicker, charts, insts, newsTitle, fmpBody, submits, clicks, escaped>>

\* loadFmpArticles from its call to its fetch: the container shows the loading
\* placeholder (innerHTML is replaced as a whole) and the fetch is outstanding
loadFmpArticlesCalled(st, trig) ==
    [st EXCEPT !.pending = @ \cup {Call("fmp", trig)},
               !.fmpBody = Shown("loading", NoTicker, <<>>)]

\* a loadFmpArticles that would insert every card before the cards built so far
loadFmpArticlesPrepending(trig, out) ==
    /\ phase = "ready"
    /\ Call("fmp", trig) \in pending
    /\ pending' = pending \ {Call("fmp", trig)}
    /\ fmpBody' =
          IF out.kind \in {"reject", "status"} THEN Shown("failed", NoTicker, <<>>)
          ELSE IF out.kind = "array" /\ Len(out.items) > 0
               THEN Shown("cards", NoTicker,
                          [i \in 1..Len(UpToNull(out.items)) |->
                              UpToNull(out.items)[Len(UpToNull(out.items)) + 1 - i]])
               ELSE Shown("none", NoTicker, <<>>)
    /\ escaped' = IF out.kind = "array" /\ HasNull(out.items)
                  THEN escaped \cup {Call("fmp", trig)} ELSE escaped
    /\ last' = Ran("fmp", trig, out.kind, Len(out.items), out.items,
                   out.kind = "array" /\ HasNull(out.items))
    /\ UNCHANGED <<fmtArgs, fmtResult, phase, canvasEls, valueText, changeText, containerClass,
                   spanClass, currentTicker, charts, insts, newsTitle, newsBody, submits, clicks>>

\* a loadFmpArticles that would not clear the container before appending its
\* cards (no container.innerHTML = '')
loadFmpArticlesAppending(trig, out) ==
    /\ phase = "ready"
    /\ Call("fmp", trig) \in pending
    /\ pending' = pending \ {Call("fmp", trig)}
    /\ fmpBody' =
          IF out.kind \in {"reject", "status"} THEN Shown("failed", NoTicker, <<>>)
          ELSE IF out.kind = "array" /\ Len(out.items) > 0
               THEN Shown("cards", NoTicker, fmpBody.items \o UpToNull(out.items))
               ELSE Shown("none", NoTicker, <<>>)
    /\ escaped' = IF out.kind = "array" /\ HasNull(out.items)
                  THEN escaped \cup {Call("fmp", trig)} ELSE escaped
    /\ last' = Ran("fmp", trig, out.kind, Len(out.items), out.items,
                   out.kind = "array" /\ HasNull(out.items))
    /\ UNCHANGED <<fmtArgs, fmtResult, phase, canvasEls, valueText, changeText, containerClass,
                   spanClass, currentTicker, charts, insts, newsTitle, newsBody, submits, clicks>>

\* loadFmpArticles from the settling of its fetch to its end: the cards are
\* built outside the try block, so a null entry's TypeError leaves the call
\* with the cards appended before it
loadFmpArticles(trig, out) ==
    /\ phase = "ready"
    /\ Call("fmp", trig) \in pending
    /\ pending' = pending \ {Call("fmp", trig)}
    /\ fmpBody' =
          IF out.kind \in {"reject", "status"} THEN Shown("failed", NoTicker, <<>>)
          ELSE IF out.kind = "array" /\ Len(out.items) > 0
               THEN Shown("cards", NoTicker, UpToNull(out.items))
               ELSE Shown("none", NoTicker, <<>>)
    /\ escaped' = IF out.kind = "array" /\ HasNull(out.items)
                  THEN escaped \cup {Call("fmp", trig)} ELSE escaped
    /\ last' = Ran("fmp", trig, out.kind, Len(out.items), out.items,
                   out.kind = "array" /\ HasNull(out.items))
    /\ UNCHANGED <<fmtArgs, fmtResult, phase, canvasEls, valueText, changeText, containerClass,
                   spanClass, currentTicker, charts, insts, newsTitle, newsBody, submits, clicks>>

\* loadMarketNews from the settling of its fetch to its end: the template has
\* no #market-news-container, so container is null; writing it throws, in the
\* try block after an answer and in the catch block in every case
loadMarketNews ==
    /\ phase = "ready"
    /\ Call("market", 0) \in pending
    /\ pending' = pending \ {Call("market", 0)}
    /\ escaped' = escaped \cup {Call("market", 0)}
    /\ last' = Ran("market", 0, "any", 0, <<>>, TRUE)
    /\ UNCHANGED <<fmtArgs, fmtResult, phase, canvasEls, valueText, changeText, containerClass,
                   spanClass, currentTicker, charts, insts, newsTitle, newsBody, fmpBody, submits, clicks>>


\* ------------------------------------------------------------ page wiring
LowerChars == <<"a", "b", "c", "d", "e", "f", "g", "h", "i", "j", "k", "l", "m", "n", "o", "p", "q", "r", "s", "t", "u", "v", "w", "x", "y", "z">>
UpperChars == <<"A", "B", "C", "D", "E", "F", "G", "H", "I", "J", "K", "L", "M", "N", "O", "P", "Q", "R", "S", "T", "U", "V", "W", "X", "Y", "Z">>
toUpperCase(txt) ==
    [i \in 1..Len(txt) |->
        IF \E k \in 1..Len(LowerChars) : LowerChars[k] = txt[i]
        THEN UpperChars[CHOOSE k \in 1..Len(LowerChars) : LowerChars[k] = txt[i]]
        ELSE txt[i]]

\* what the user has typed into #stock-ticker-input when submitting
TypedInputs == {<<" ">>, <<" ", "t", "s", " ">>}

\* both DOMContentLoaded listeners of the script, in the order they were added.
\* The first: loadMarketNews() fetches; loadStockSpecificNews('XYZ') finds no
\* #stock-specific-news-container, throws on its first statement and again in
\* its catch block, before any fetch; loadPerformanceCharts('IBM') fetches.
\* The second: loadFmpArticles(), loadTickerNews('IBM') and
\* loadPerformanceDataAndRenderCharts('IBM') show their placeholders and fetch.
DOMContentLoaded ==
    /\ phase = "parsed"
    /\ phase' = "ready"
    /\ pending' = {Call("market", 0), Call("perfOld", 0), Call("fmp", 0), Call("news", 0),
                   Call("perf", 0)}
    /\ escaped' = escaped \cup {Call("stockNewsOld", 0)}
    /\ fmpBody' = Shown("loading", NoTicker, <<>>)
    /\ newsTitle' = IBM
    /\ newsBody' = Shown("loading", IBM, <<>>)
    /\ last' = Ran("load", 0, "none", 0, <<>>, FALSE)
    /\ UNCHANGED <<fmtArgs, fmtResult, canvasEls, valueText, changeText, containerClass,
                   spanClass, currentTicker, charts, insts, submits, clicks>>

\* a click whose loads would abort the fetches still outstanding (the source
\* has no AbortController; this variant is what the code does not do)
clickOnceCancelling(st, typed) ==
    LET ticker == toUpperCase(trim(typed))
        trig == Len(st.clicks) + 1
    IN  IF ticker # <<>>
        THEN [clicks |-> Append(st.clicks, ticker),
              pending |-> {Call("perfOld", trig), Call("news", trig), Call("perf", trig)},
              escaped |-> st.escaped \cup {Call("stockNewsOld", trig)},
              newsTitle |-> ticker,
              newsBody |-> Shown("loading", ticker, <<>>)]
        ELSE [st EXCEPT !.clicks = Append(st.clicks, ticker),
                        !.newsBody = Shown("prompt", NoTicker, <<>>)]

\* a click whose loadTickerNews would not write the section title
clickOnceKeepingTitle(st, typed) ==
    LET ticker == toUpperCase(trim(typed))
        trig == Len(st.clicks) + 1
    IN  IF ticker # <<>>
        THEN [clicks |-> Append(st.clicks, ticker),
              pending |-> st.pending \cup {Call("perfOld", trig), Call("news", trig),
                                           Call("perf", trig)},
              escaped |-> st.escaped \cup {Call("stockNewsOld", trig)},
              newsTitle |-> st.newsTitle,
              newsBody |-> Shown("loading", ticker, <<>>)]
        ELSE [st EXCEPT !.clicks = Append(st.clicks, ticker),
                        !.newsBody = Shown("prompt", NoTicker, <<>>)]

\* a click that would also reset the section title when the ticker is empty
clickOnceResettingTitle(st, typed) ==
    LET ticker == toUpperCase(trim(typed))
        trig == Len(st.clicks) + 1
    IN  IF ticker # <<>>
        THEN [clicks |-> Append(st.clicks, ticker),
              pending |-> st.pending \cup {Call("perfOld", trig), Call("news", trig),
                                           Call("perf", trig)},
              escaped |-> st.escaped \cup {Call("stockNewsOld", trig)},
              newsTitle |-> ticker,
              newsBody |-> Shown("loading", ticker, <<>>)]
        ELSE [st EXCEPT !.clicks = Append(st.clicks, ticker),
                        !.newsTitle = NoTicker,
                        !.newsBody = Shown("prompt", NoTicker, <<>>)]

\* one click event on #fetch-stock-news-btn: both click listeners, the old one
\* first.  st is the part of the state a click can change.
clickOnce(st, typed) ==
    LET ticker == toUpperCase(trim(typed))
        trig == Len(st.clicks) + 1
    IN  IF ticker # <<>>
        THEN [clicks |-> Append(st.clicks, ticker),
              pending |-> st.pending \cup {Call("perfOld", trig), Call("news", trig),
                                           Call("perf", trig)},
              escaped |-> st.escaped \cup {Call("stockNewsOld", trig)},
              newsTitle |-> ticker,
              newsBody |-> Shown("loading", ticker, <<>>)]
        ELSE [st EXCEPT !.clicks = Append(st.clicks, ticker),
                        !.newsBody = Shown("prompt", NoTicker, <<>>)]

ClickState == [clicks |-> clicks, pending |-> pending, escaped |-> escaped,
               newsTitle |-> newsTitle, newsBody |-> newsBody]

Clicked(st, n) ==
    /\ submits' = submits + 1
    /\ clicks' = st.clicks
    /\ pending' = st.pending
    /\ escaped' = st.escaped
    /\ newsTitle' = st.newsTitle
    /\ newsBody' = st.newsBody
    /\ last' = Ran("click", Len(st.clicks), "none", n, <<>>, FALSE)
    /\ UNCHANGED <<fmtArgs, fmtResult, phase, canvasEls, valueText, changeText, containerClass,
                   spanClass, currentTicker, charts, insts, fmpBody>>

\* the user clicks the button
Click(typed) ==
    /\ phase = "ready"
    /\ submits < MaxSubmits
    /\ Clicked(clickOnce(ClickState, typed), 1)

\* the user presses Enter in the input: both keypress listeners (one of each
\* DOMContentLoaded listener) call fetchStockNewsBtn.click()
KeypressEnter(typed) ==
    /\ phase = "ready"
    /\ submits < MaxSubmits
    /\ Clicked(clickOnce(clickOnce(ClickState, typed), typed), 2)

\* ------------------------------------------------------- specifications
NoCall == [val |-> Undefined, digits |-> 0, isPercent |-> FALSE]
NotRun == [thrown |-> FALSE, text |-> <<>>]

InitDocument ==
    /\ fmtResult = NotRun
    /\ phase = "parsed"
    /\ canvasEls = CanvasSet
    /\ valueText = [m \in MetricSet |-> <<>>]
    /\ changeText = [m \in MetricSet |-> <<>>]
    /\ containerClass = [m \in MetricSet |-> {}]
    /\ spanClass = [m \in MetricSet |-> {}]
    /\ currentTicker = NoTicker
    /\ charts = [c \in CanvasSet |-> NoChart]
    /\ insts = <<>>
    /\ newsTitle = NoTicker
    /\ newsBody = Shown("empty", NoTicker, <<>>)
    /\ fmpBody = Shown("empty", NoTicker, <<>>)
    /\ submits = 0
    /\ clicks = <<>>
    /\ pending = {}
    /\ escaped = {}
    /\ last = Ran("none", 0, "none", 0, <<>>, FALSE)

\* the calls of fn awaiting their fetch
Awaiting(fn) == {c.trig : c \in {x \in pending : x.fn = fn}}

\* the Chart construction of a handler run that throws, if one does (the calls
\* after it are not reached, so one per run is all a run can show): that of the
\* second chart, which has a chart before it and two after it
Failures == {"none", "movingZScoreChart"}

PerfSettles ==
    \E trig \in Awaiting("perf"), out \in PerfOutcomes, failAt \in Failures :
        loadPerformanceDataAndRenderCharts(trig, out, failAt)
PerfOldSettles ==
    \E trig \in Awaiting("perfOld"), out \in PerfOutcomes, failAt \in Failures :
        loadPerformanceCharts(trig, out, failAt)
NewsSettles == \E trig \in Awaiting("news"), out \in ArticleOutcomes : loadTickerNews(trig, out)
FmpSettles == \E trig \in Awaiting("fmp"), out \in ArticleOutcomes : loadFmpArticles(trig, out)
Clicks == \E typed \in TypedInputs : Click(typed)
Keypresses == \E typed \in TypedInputs : KeypressEnter(typed)

Init ==
    /\ fmtArgs = NoCall
    /\ InitDocument

Next ==
    \/ DOMContentLoaded
    \/ Clicks
    \/ Keypresses
    \/ PerfSettles
    \/ PerfOldSettles
    \/ NewsSettles
    \/ FmpSettles
    \/ loadMarketNews

NextPerf ==
    \/ DOMContentLoaded
    \/ Clicks
    \/ PerfSettles
    \/ PerfOldSettles
SpecPerf == Init /\ [][NextPerf]_vars

Spec == Init /\ [][Next]_vars


\* -------------------------------------------- the formatter on its own
\* magnitudes, in units of 10^-4: zero, the values around the rounding ties of
\* 0 to 3 decimal places, and values with an integer part
Magnitudes == {0, 1, 4, 5, 49, 50, 51, 499, 500, 4999, 5000, 9949, 9950, 9999, 10000,
               12345, 50000, 99950, 99995, 123000, 1234567}
FiniteNumbers == {Num(neg, m * (Unit \div 10000)) : neg \in BOOLEAN, m \in Magnitudes}
Texts == {<<"1", "2", ".", "3", "%">>,
          <<"n", "o", "t", "-", "a", "-", "n", "u", "m", "b", "e", "r">>,
          <<"-", "5", ".", "0", "0", "%">>,
          <<"+", "1", ".", "0", "0", "%">>,
          <<>>,
          <<"%">>,
          <<"-", "0", ".", "0", "0">>,
          <<"a", "b", "c">>,
          <<".", "5">>,
          <<"5", ".">>,
          <<"-">>,
          <<"1", "2", "a", "b", "c">>,
          <<" ", "7">>,
          <<"1", ".", "2", ".", "3">>,
          <<"-", ".", "0", "0", "4">>,
          <<"+", "0", ".", "0", "0", "%">>,
          <<"-", "0", ".", "0", "0", "4", "9">>,
          <<"N", "/", "A">>}
\* what a JSON payload, or a caller, can hand to formatSignedValue
Values == FiniteNumbers \cup {Str(t) : t \in Texts} \cup {Undefined, Null, Bool(TRUE), Bool(FALSE)}
FormatCalls == [val : Values, digits : 0..MaxDigits, isPercent : BOOLEAN]

\* the call under study is drawn from FormatCalls
InitFormat ==
    /\ fmtArgs \in FormatCalls
    /\ InitDocument

\* the call is made
FormatCall ==
    /\ last.op = "none"
    /\ fmtResult' = formatSignedValue(fmtArgs.val, fmtArgs.digits, fmtArgs.isPercent)
    /\ last' = Ran("format", 0, "none", 0, <<>>, fmtResult'.thrown)
    /\ UNCHANGED <<fmtArgs, phase, canvasEls, valueText, changeText, containerClass,
                   spanClass, currentTicker, charts, insts, newsTitle, newsBody, fmpBody,
                   submits, clicks, pending, escaped>>

NextFormat == FormatCall
SpecFormat == InitFormat /\ [][NextFormat]_vars


\* -------------------------------------- the backend answering by ticker
\* a backend that answers every request, and each ticker with its own data:
\* IBM with the first payload and one article, any other ticker with the
\* second payload and two articles
BackendPerf(ticker) == [kind |-> "data", p |-> IF ticker = IBM THEN 1 ELSE 2]
BackendNews(ticker) == [kind |-> "array", items |-> IF ticker = IBM THEN <<1>> ELSE <<1, 2>>]

PerfAnswered ==
    \E trig \in Awaiting("perf") :
        loadPerformanceDataAndRenderCharts(trig, BackendPerf(TickerOf(trig)), "none")
PerfOldAnswered ==
    \E trig \in Awaiting("perfOld") :
        loadPerformanceCharts(trig, BackendPerf(TickerOf(trig)), "none")
NewsAnswered ==
    \E trig \in Awaiting("news") : loadTickerNews(trig, BackendNews(TickerOf(trig)))
FmpAnswered ==
    \E trig \in Awaiting("fmp") : loadFmpArticles(trig, [kind |-> "array", items |-> <<1, 2>>])

NextRace ==
    \/ DOMContentLoaded
    \/ Clicks
    \/ PerfAnswered
    \/ PerfOldAnswered
    \/ NewsAnswered
    \/ FmpAnswered
    \/ loadMarketNews
SpecRace == Init /\ [][NextRace]_vars

\* ------------------------------------------- news, articles and submits
\* the page with its article and news loads answered in every way, and the
\* ticker field submitted by click or by Enter
NextNews ==
    \/ DOMContentLoaded
    \/ Clicks
    \/ Keypresses
    \/ NewsSettles
    \/ FmpSettles
SpecNews == Init /\ [][NextNews]_vars

\* every answer that arrives is handled: the continuation of an await runs
\* once its fetch has settled
SpecNewsLive == SpecNews /\ WF_vars(NewsSettles)

\* ------------------------------------------------------ submits in full
\* the whole page under the backend that answers by ticker, submitted by
\* click or by Enter
NextSubmit ==
    \/ DOMContentLoaded
    \/ Clicks
    \/ Keypresses
    \/ PerfAnswered
    \/ PerfOldAnswered
    \/ NewsAnswered
    \/ FmpAnswered
    \/ loadMarketNews
SpecSubmit == Init /\ [][NextSubmit]_vars

\* ------------------------------------------------ loadFmpArticles again
\* loadFmpArticles called again while the page is up (the page itself calls
\* it once, at DOMContentLoaded); at most MaxFmpCalls such calls are
\* outstanding together
FmpFree == {n \in 1..MaxFmpCalls : Call("fmp", n) \notin pending}
FmpCalled ==
    /\ phase = "ready"
    /\ FmpFree # {}
    /\ LET trig == CHOOSE n \in FmpFree : \A k \in FmpFree : n <= k
           st == loadFmpArticlesCalled([pending |-> pending, fmpBody |-> fmpBody], trig)
       IN  /\ pending' = st.pending
           /\ fmpBody' = st.fmpBody
           /\ last' = Ran("fmpCall", trig, "none", 0, <<>>, FALSE)
    /\ UNCHANGED <<fmtArgs, fmtResult, phase, canvasEls, valueText, changeText, containerClass,
                   spanClass, currentTicker, charts, insts, newsTitle, newsBody, submits,
                   clicks, escaped>>
NextFmp ==
    \/ DOMContentLoaded
    \/ FmpCalled
    \/ FmpSettles
SpecFmp == Init /\ [][NextFmp]_vars

\* ------------------------------------------------------------ properties
TS == <<"T", "S">>
PlusZero == <<"+", "0", ".", "0", "0">>
PlusZeroPercent == <<"+", "0", ".", "0", "0", "%">>
FetchFailures == {"reject", "status", "error"}
RenderOps(r, kind) == {k \in 1..Len(r.ops) : r.ops[k].op = kind}
LastRenders == {last.renders[i] : i \in 1..Len(last.renders)}

\* C1: a renderChart call on an existing canvas that builds an instance leaves
\* that instance as the only one registered and alive on the canvas; the
\* instance registered before it is destroyed by one destroy() call, made
\* before the constructor runs (no instance is alive on the canvas then).
C1_DestroyBeforeReplace ==
    \A r \in LastRenders : \A k \in RenderOps(r, "new") :
        /\ r.ops[k].n = 0
        /\ k = Len(r.ops)
        /\ Cardinality(RenderOps(r, "destroy")) <= 1
        /\ charts[r.canvas] = r.ops[k].id
        /\ LiveOn(insts, r.canvas) = {r.ops[k].id}
C1_Witness ==
    \E r \in LastRenders :
        /\ Len(r.ops) = 2
        /\ r.ops[1].op = "destroy" /\ r.ops[1].n = 1
        /\ r.ops[2].op = "new"
        /\ r.ops[1].id.canvas = r.canvas

\* C2: every canvas has at most one instance alive, the instance alive is the
\* one the registry holds, and the registry holds no destroyed instance.
C2_OneLiveHandle ==
    \A c \in CanvasSet :
        /\ Cardinality(LiveOn(insts, c)) <= 1
        /\ \A j \in LiveOn(insts, c) : charts[c] = j
        /\ charts[c] # NoChart => insts[charts[c]].destroyed = 0

\* C3: a run of loadPerformanceDataAndRenderCharts whose fetch was rejected,
\* answered with a non-2xx status or with an error field writes the fallback
\* strings into the eight slots and calls renderChart once per canvas, in
\* order, with empty data and labels.
C3_FallbackNotAborted ==
    (last.op = "perf" /\ last.kind \in FetchFailures) =>
        /\ \A m \in MetricSet :
              /\ valueText[m] = FormattedTable[[kind |-> "reject", p |-> 0]][m].val.text
              /\ changeText[m] = FormattedTable[[kind |-> "reject", p |-> 0]][m].chg.text
        /\ Len(last.renders) = Len(Canvases)
        /\ \A i \in 1..Len(last.renders) :
              last.renders[i].canvas = Canvases[i]
              /\ last.renders[i].data = <<>> /\ last.renders[i].labels = <<>>

\* C4: after a run whose fetch was rejected the relative-performance value
\* slot shows "+0.00%", the other three value slots show "+0.00", and no
\* exception has left the call.
C4_RejectionShowsZeros ==
    (last.op = "perf" /\ last.kind = "reject") =>
        /\ \A m \in MetricSet :
              valueText[m] = IF m = "relative_performance" THEN PlusZeroPercent ELSE PlusZero
        /\ ~last.threw

\* C5: after a run of loadPerformanceDataAndRenderCharts that returned, each
\* change slot's container carries exactly one of positive and negative:
\* negative if the formatted change begins with '-', positive otherwise.
C5_ClassBySign ==
    (last.op = "perf" /\ ~last.threw) =>
        \A m \in MetricSet :
            containerClass[m] =
                IF startsWith(FormattedTable[[kind |-> last.kind, p |-> last.p]][m].chg.text, "-")
                THEN {"negative"} ELSE {"positive"}
C5_Witness ==
    /\ last.op = "perf" /\ ~last.threw
    /\ containerClass["alpha"] = {"negative"}
    /\ containerClass["relative_performance"] = {"positive"}
    /\ startsWith(changeText["alpha"], "-")

\* C6 as stated: after the documented payload the relative-performance value
\* slot shows "-5.00%" and its change container is negative, not positive.
C6_ExampleNegative ==
    (last.op = "perf" /\ last.kind = "data" /\ last.p = 1) =>
        /\ valueText["relative_performance"] = <<"-", "5", ".", "0", "0", "%">>
        /\ "negative" \in containerClass["relative_performance"]
        /\ "positive" \notin containerClass["relative_performance"]
\* C6 as amended: after the documented payload the relative-performance value
\* slot shows "-5.00%" and its change container is positive, not negative (the
\* class follows the change "+1.00%", not the value).
C6_ExamplePositive ==
    (last.op = "perf" /\ last.kind = "data" /\ last.p = 1) =>
        /\ valueText["relative_performance"] = <<"-", "5", ".", "0", "0", "%">>
        /\ changeText["relative_performance"] = <<"+", "1", ".", "0", "0", "%">>
        /\ "positive" \in containerClass["relative_performance"]
        /\ "negative" \notin containerClass["relative_performance"]
C6_Witness ==
    /\ last.op = "perf" /\ last.kind = "data" /\ last.p = 1
    /\ PerfPayloads[1].relative_performance.value = Str(<<"-", "5", ".", "0", "0", "%">>)
    /\ PerfPayloads[1].relative_performance.change = Str(<<"+", "1", ".", "0", "0", "%">>)
    /\ valueText["relative_performance"] = <<"-", "5", ".", "0", "0", "%">>

\* C7: the title of every registered chart begins with the ticker of the
\* load that rendered it.
IsPrefix(pre, txt) == Len(pre) <= Len(txt) /\ SubSeq(txt, 1, Len(pre)) = pre
C7_TitleHasTicker ==
    \A c \in CanvasSet :
        charts[c] # NoChart =>
            IsPrefix(TickerOf(charts[c].trig), insts[charts[c]].title)

\* C8: no step takes a fetch out of flight other than its own settling, one
\* fetch a step; a submit leaves the fetches in flight in flight.
C8_NeverCancelled ==
    [][\/ pending \subseteq pending'
       \/ \E c \in pending : pending' = pending \ {c}]_vars
\* IBM was loaded, TS was submitted after it, nothing is in flight, and the
\* slots, the charts and the news list are those of IBM's answers
C8_Witness ==
    /\ pending = {} /\ phase = "ready"
    /\ clicks = <<TS>> /\ newsTitle = TS
    /\ newsBody = Shown("list", IBM, <<[n |-> 1, article |-> 1]>>)
    /\ \A m \in MetricSet :
          /\ valueText[m] = FormattedTable[BackendPerf(IBM)][m].val.text
          /\ changeText[m] = FormattedTable[BackendPerf(IBM)][m].chg.text
    /\ \A c \in CanvasSet : charts[c] = [fn |-> "perf", trig |-> 0, canvas |-> c]
    /\ currentTicker = IBM

\* C9: for a finite number v, formatSignedValue(v, digits, asPercent) returns
\* a sign, '+' exactly when v >= 0 and '-' otherwise, followed by v rounded to
\* digits decimal places (a '%' after it exactly when asPercent).
ResultBody ==
    SubSeq(fmtResult.text, 2, Len(fmtResult.text) - (IF fmtArgs.isPercent THEN 1 ELSE 0))
ResultIntLen == DigitRun(ResultBody, 1)
ResultMagnitude ==
    DigitsValue(ResultBody, 1, ResultIntLen) * Pow10(fmtArgs.digits)
    + (IF fmtArgs.digits = 0 THEN 0 ELSE DigitsValue(ResultBody, ResultIntLen + 2, fmtArgs.digits))
C9_SignedFixed ==
    (last.op = "format" /\ fmtArgs.val.t = "num") =>
        /\ ~fmtResult.thrown
        /\ Len(fmtResult.text) >= 2
        /\ fmtResult.text[1] = (IF ~fmtArgs.val.neg \/ fmtArgs.val.mag = 0 THEN "+" ELSE "-")
        /\ (fmtResult.text[Len(fmtResult.text)] = "%") = fmtArgs.isPercent
        /\ ResultIntLen >= 1
        /\ Len(ResultBody) = ResultIntLen + (IF fmtArgs.digits = 0 THEN 0 ELSE 1 + fmtArgs.digits)
        /\ fmtArgs.digits > 0 =>
              /\ ResultBody[ResultIntLen + 1] = "."
              /\ DigitRun(ResultBody, ResultIntLen + 2) = fmtArgs.digits
        /\ LET q == Pow10(FracDigits - fmtArgs.digits)
               diff == ResultMagnitude * q - fmtArgs.val.mag
           IN  2 * diff <= q /\ -q < 2 * diff
C9_Witness ==
    /\ last.op = "format"
    /\ fmtArgs.val.t = "num" /\ fmtArgs.val.neg
    /\ fmtArgs.val.mag > 0 /\ ResultMagnitude = 0
    /\ fmtResult.text[1] = "-"

\* C10: for a value that is no number (text without a digit, undefined, null,
\* a boolean) formatSignedValue returns "+0.00", or "+0.00%" when asPercent,
\* and does not throw.
NotANumber(v) ==
    \/ v.t \in {"undef", "null", "bool"}
    \/ v.t = "str" /\ \A i \in 1..Len(v.s) : ~IsDigit(v.s[i])
C10_FallbackNeverThrows ==
    (last.op = "format" /\ NotANumber(fmtArgs.val)) =>
        fmtResult = Returned(IF fmtArgs.isPercent THEN PlusZeroPercent ELSE PlusZero)

\* what #fmp-articles-container holds once a response has been handled: the
\* failure message, the no-articles message, or one card per article
FmpContent(kind, items) ==
    IF kind \in {"reject", "status"} THEN Shown("failed", NoTicker, <<>>)
    ELSE IF kind = "array" /\ Len(items) > 0 THEN Shown("cards", NoTicker, UpToNull(items))
    ELSE Shown("none", NoTicker, <<>>)

\* C11: after loadFmpArticles has handled a successful response, the container
\* holds the no-articles message and no card if the payload is not an array
\* or is empty, and exactly one card per article, in response order and with
\* nothing else, if it is an array of N >= 1 articles.
C11_CardsInOrder ==
    (last.op = "fmp" /\ last.kind \in {"notarray", "array"}) =>
        IF last.kind = "array" /\ last.p >= 1
        THEN ~HasNull(last.renders) => fmpBody = Shown("cards", NoTicker, last.renders)
        ELSE fmpBody = Shown("none", NoTicker, <<>>)
C11_Witness ==
    /\ last.op = "fmp" /\ last.kind = "array" /\ last.renders = <<2, 1>>
    /\ fmpBody.kind = "cards" /\ fmpBody.items = <<2, 1>>

\* C12: a failed fetch, a non-success status or a malformed payload of
\* loadFmpArticles or loadTickerNews ends with an inline message in the
\* container; once the fetches have settled the container is not blank, not
\* partially built and not showing the loading placeholder.
C12_FailureShowsMessage ==
    /\ (last.op = "fmp" /\ (last.kind \in {"reject", "status", "notarray"} \/ HasNull(last.renders)))
          => fmpBody.kind \in {"failed", "none"}
    /\ (last.op = "news" /\ (last.kind \in {"reject", "status", "notarray"} \/ HasNull(last.renders)))
          => newsBody.kind \in {"failed", "none"}
    /\ (phase = "ready" /\ Awaiting("fmp") = {}) => fmpBody.kind \notin {"empty", "loading"}
    /\ (phase = "ready" /\ Awaiting("news") = {}) => newsBody.kind \notin {"empty", "loading"}

\* C13: whatever the container held before, and whichever other calls are
\* outstanding, once a loadFmpArticles call has handled its response the
\* container holds what that response alone determines; while a call that was
\* just made waits, it holds the loading placeholder alone.
C13_ReplacedByLatest ==
    /\ last.op = "fmp" => fmpBody = FmpContent(last.kind, last.renders)
    /\ last.op = "fmpCall" => fmpBody = Shown("loading", NoTicker, <<>>)
C13_Witness ==
    /\ Call("fmp", 1) \in escaped
    /\ last.op = "fmp" /\ last.trig = 0 /\ last.renders = <<2, 1>>
    /\ fmpBody = Shown("cards", NoTicker, <<2, 1>>)

Contains(txt, sub) ==
    \E i \in 0..(Len(txt) - Len(sub)) : SubSeq(txt, i + 1, i + Len(sub)) = sub
NoNewsFoundFor(ticker) == <<"N", "o", " ", "n", "e", "w", "s", " ", "f", "o", "u", "n", "d", " ", "f", "o", "r", " ">> \o ticker \o <<".">>
\* the loadTickerNews call made last: that of the latest click with a ticker,
\* or that of the page load
LatestNewsCall ==
    LET made == {k \in 1..Len(clicks) : clicks[k] # <<>>}
    IN  IF made = {} THEN 0 ELSE CHOOSE k \in made : \A j \in made : j <= k

\* C14 (as stated): when loadTickerNews(T) has handled an empty array, the
\* container text is "No news found for T." and the section title contains T.
C14_EmptyResult ==
    (last.op = "news" /\ last.kind = "array" /\ last.p = 0) =>
        /\ ContainerText(newsBody) = NoNewsFoundFor(TickerOf(last.trig))
        /\ Contains(TitleText(newsTitle), TickerOf(last.trig))
\* C14 (amended): the container text is "No news found for T."; the section
\* title contains the ticker of the loadTickerNews call made last, which is T
\* when no call was made after that of T.
C14_EmptyResultLatestCall ==
    (last.op = "news" /\ last.kind = "array" /\ last.p = 0) =>
        /\ ContainerText(newsBody) = NoNewsFoundFor(TickerOf(last.trig))
        /\ Contains(TitleText(newsTitle), TickerOf(LatestNewsCall))
        /\ last.trig = LatestNewsCall => Contains(TitleText(newsTitle), TickerOf(last.trig))
C14_Witness ==
    /\ last.op = "news" /\ last.kind = "array" /\ last.p = 0 /\ last.trig = 0
    /\ clicks = <<TS>> /\ LatestNewsCall = 1
    /\ ContainerText(newsBody) = NoNewsFoundFor(IBM)
    /\ Contains(TitleText(newsTitle), TS) /\ ~Contains(TitleText(newsTitle), IBM)

\* the loadTickerNews calls a run can make: that of the page load and one for
\* each click event (an Enter key makes two)
NewsCalls == 0..(2 * MaxSubmits)
\* what loadTickerNews(T) shows for an answer: the failure message for T, the
\* no-news message for T, or the entries numbered from 1 in response order
NewsOutcome(kind, items, ticker) ==
    IF kind \in {"reject", "status"} \/ HasNull(items) THEN Shown("failed", ticker, <<>>)
    ELSE IF kind = "array" /\ Len(items) >= 1
         THEN Shown("list", ticker, [i \in 1..Len(items) |-> [n |-> i, article |-> items[i]]])
         ELSE Shown("none", ticker, <<>>)
Prompt == Shown("prompt", NoTicker, <<>>)
\* one step seen from a loadTickerNews call t that is the only one in flight:
\* its start shows the placeholder, the placeholder stays while the call waits
\* (orPrompt: or gives way to the prompt of an empty submit), and the settling
\* of its fetch shows its outcome
NewsCallStep(orPrompt) ==
    \A t \in NewsCalls :
        /\ (Awaiting("news") = {} /\ Awaiting("news")' = {t})
              => newsBody' = Shown("loading", TickerOf(t)', <<>>)
        /\ (Awaiting("news") = {t} /\ Awaiting("news")' = {t}
              /\ newsBody = Shown("loading", TickerOf(t), <<>>))
              => (newsBody' = newsBody \/ (orPrompt /\ newsBody' = Prompt))
        /\ (Awaiting("news") = {t} /\ Awaiting("news")' = {})
              => newsBody' = NewsOutcome(last'.kind, last'.renders, TickerOf(t))
NewsInFlight == Awaiting("news") # {}
NewsOutcomeShown == Awaiting("news") = {} /\ newsBody.kind \in {"failed", "none", "list"}

\* C15 (as stated): a loadTickerNews(T) call alone in flight shows the loading
\* placeholder from the call until its fetch settles, then exactly one of the
\* failure message for T, the no-news message for T, or the list numbered
\* 1..N in response order.
C15_PlaceholderUntilSettled == [][NewsCallStep(FALSE)]_vars
\* C15 (amended): as above, except that an empty submit made while the call
\* waits replaces the placeholder by the inline prompt; and once the fetches
\* settle, one of the three outcomes is displayed.
C15_PlaceholderThenOutcome ==
    /\ [][NewsCallStep(TRUE)]_vars
    /\ NewsInFlight ~> NewsOutcomeShown
\* the page-load call is the only loadTickerNews call made; an empty submit
\* came while it waited, and its answer of two articles is now listed
C15_Witness ==
    /\ last.op = "news" /\ last.trig = 0 /\ last.renders = <<2, 1>>
    /\ clicks = << <<>> >> /\ Awaiting("news") = {}
    /\ newsBody = Shown("list", IBM, <<[n |-> 1, article |-> 2], [n |-> 2, article |-> 1]>>)

\* a step that is a submit (one click event, or the two of an Enter key) whose
\* entered ticker is empty after trimming
EmptySubmit ==
    /\ Len(clicks') > Len(clicks)
    /\ \A k \in (Len(clicks) + 1)..Len(clicks') : clicks'[k] = <<>>

\* C16: a submit whose ticker is empty after trimming starts no fetch and sets
\* the news container to the inline prompt; the section title, the eight
\* metric slots, the classes of the change containers, the chart registry
\* (and its charts) and the shared ticker are left as they were.
C16_EmptySubmitFrame ==
    [][EmptySubmit =>
          /\ pending' = pending
          /\ newsBody' = Prompt
          /\ UNCHANGED <<newsTitle, valueText, changeText, containerClass, charts, insts,
                         currentTicker>>]_vars
\* Enter on a blank field once the page has loaded IBM: two click events, the
\* prompt in the container, the title and the panel still those of IBM
C16_Witness ==
    /\ last.op = "click" /\ last.p = 2 /\ clicks = << <<>>, <<>> >>
    /\ newsBody = Prompt /\ newsTitle = IBM /\ currentTicker = IBM
    /\ valueText["relative_performance"] # <<>>
    /\ \A c \in CanvasSet : charts[c] # NoChart

\* the renderChart calls of the last run in which the Chart constructor threw
\* (the canvas exists and no instance was built)
FailedRenders == {r \in LastRenders : r.canvas \in canvasEls /\ RenderOps(r, "new") = {}}

\* C17: no exception or rejected promise leaves loadFmpArticles,
\* loadTickerNews, loadPerformanceDataAndRenderCharts or renderChart, whatever
\* the fetch outcome and the payload.
C17_NoThrowPastBoundary ==
    /\ \A c \in escaped : c.fn \notin {"fmp", "news", "perf"}
    /\ last.op \in {"fmp", "news", "perf"} => ~last.threw

\* C18: after a renderChart(X, ...) call in which the Chart constructor threw,
\* the registry holds no instance for X, neither a live one nor a destroyed
\* one.
C18_FailedConstructionUnregisters ==
    last.op \in {"perf", "perfOld"} =>
        \A r \in FailedRenders : charts[r.canvas] = NoChart

\* C19: in one loadPerformanceDataAndRenderCharts call that reaches its
\* renderChart calls, a Chart construction that throws (or a missing canvas)
\* costs that one render only: renderChart is called for all four canvases,
\* every other canvas gets a chart of this call registered, and the slots
\* keep the text the call wrote.
C19_SiblingsUnaffected ==
    (last.op = "perf" /\ last.renders # <<>>) =>
        /\ Len(last.renders) = Len(Canvases)
        /\ \A i \in 1..Len(last.renders) :
              \/ last.renders[i] \in FailedRenders
              \/ Canvases[i] \notin canvasEls
              \/ charts[Canvases[i]] = [fn |-> "perf", trig |-> last.trig, canvas |-> Canvases[i]]
        /\ \A m \in MetricSet :
              /\ valueText[m] = FormattedTable[[kind |-> last.kind, p |-> last.p]][m].val.text
              /\ changeText[m] = FormattedTable[[kind |-> last.kind, p |-> last.p]][m].chg.text

\* the resource a call fetches
Endpoint(fn) ==
    CASE fn \in {"perf", "perfOld"} -> "performance_charts"
      [] fn = "news"                -> "fmp_articles?ticker"
      [] fn = "fmp"                 -> "fmp_articles"
      [] OTHER                      -> "market_news"
\* the fetches a step issues, and how many of them go to one resource
Issued == pending' \ pending
IssuedTo(e) == Cardinality({c \in Issued : Endpoint(c.fn) = e})
PageLoad == phase = "parsed" /\ phase' = "ready"
TickerSubmit == Len(clicks') > Len(clicks) /\ clicks'[Len(clicks')] # <<>>

\* C20: the page load issues one articles fetch, one news fetch and one
\* performance fetch, for the default ticker, and nothing else; a submit with
\* a non-empty ticker T issues one news fetch and one performance fetch, for
\* T, and nothing else; no other step (the handling of an answer, failed or
\* not, or an empty submit) issues a fetch.
C20_FetchesOnlyByTrigger ==
    [][/\ PageLoad =>
             /\ IssuedTo("fmp_articles") = 1 /\ IssuedTo("fmp_articles?ticker") = 1
             /\ IssuedTo("performance_charts") = 1 /\ Cardinality(Issued) = 3
             /\ \A c \in Issued : c.trig = 0
       /\ TickerSubmit =>
             /\ IssuedTo("fmp_articles?ticker") = 1 /\ IssuedTo("performance_charts") = 1
             /\ Cardinality(Issued) = 2
             /\ \A c \in Issued : clicks'[c.trig] = clicks'[Len(clicks')]
       /\ (~PageLoad /\ ~TickerSubmit) => Issued = {}]_vars

\* the panel is all of call t of loadPerformanceDataAndRenderCharts, answered
\* with out: eight slots, four classes, four charts and the shared ticker
PanelOf(t, out) ==
    /\ t = 0 \/ (t <= Len(clicks) /\ clicks[t] # <<>>)
    /\ currentTicker = TickerOf(t)
    /\ \A m \in MetricSet :
          /\ ~FormattedTable[out][m].val.thrown /\ ~FormattedTable[out][m].chg.thrown
          /\ valueText[m] = FormattedTable[out][m].val.text
          /\ changeText[m] = FormattedTable[out][m].chg.text
          /\ containerClass[m] =
                IF startsWith(FormattedTable[out][m].chg.text, "-")
                THEN {"negative"} ELSE {"positive"}
    /\ \A i \in 1..Len(Canvases) :
          /\ charts[Canvases[i]] = [fn |-> "perf", trig |-> t, canvas |-> Canvases[i]]
          /\ charts[Canvases[i]] \in DOMAIN insts
          /\ insts[charts[Canvases[i]]].destroyed = 0
          /\ insts[charts[Canvases[i]]].data = MetricData(out, Metrics[i]).values
PanelUntouched ==
    /\ currentTicker = NoTicker
    /\ \A m \in MetricSet : valueText[m] = <<>> /\ changeText[m] = <<>> /\ containerClass[m] = {}
    /\ \A c \in CanvasSet : charts[c] = NoChart

\* C21: between handler runs the performance panel is either untouched or, as
\* a whole, that of one completed loadPerformanceDataAndRenderCharts call: the
\* slots, the classes, the registered charts and the shared ticker never mix
\* two calls.
C21_PanelFromOneCall ==
    \/ PanelUntouched
    \/ \E t \in NewsCalls, out \in PerfOutcomes : PanelOf(t, out)

\* no ticker-news fetch is in flight and the container shows the outcome of a
\* loadTickerNews call (a list, the no-news message or the failure message)
NewsSettled ==
    phase = "ready" /\ Awaiting("news") = {} /\ newsBody.kind \in {"failed", "none", "list"}

\* C22 (as stated): whenever no ticker-news fetch is in flight, the ticker in
\* the section title is the ticker whose outcome the container shows.
C22_TitleMatchesContainer == NewsSettled => newsTitle = newsBody.ticker
\* C22 (amended): the title names the ticker of the loadTickerNews call made
\* last and the container shows the outcome of the call whose answer was
\* handled last; they name the same ticker when that is the same call.
C22_TitleOfLatestCall ==
    NewsSettled =>
        /\ newsTitle = TickerOf(LatestNewsCall)
        /\ \E t \in NewsCalls :
              (t = 0 \/ (t <= Len(clicks) /\ clicks[t] # <<>>)) /\ newsBody.ticker = TickerOf(t)
        /\ last.op = "news" => newsBody.ticker = TickerOf(last.trig)
        /\ (last.op = "news" /\ last.trig = LatestNewsCall) => newsTitle = newsBody.ticker
\* TS was submitted after the page load, the answer for IBM came last: the
\* title names TS over the news list of IBM
C22_Witness ==
    /\ NewsSettled /\ clicks = <<TS>>
    /\ last.op = "news" /\ last.trig = 0 /\ last.renders = <<1, 2>>
    /\ newsTitle = TS /\ newsBody.ticker = IBM /\ newsBody.kind = "list"

\* formatSignedValue was called with a finite number and returned
FormattedNumber == last.op = "format" /\ fmtArgs.val.t = "num" /\ ~fmtResult.thrown
\* the formatter applied to its own result, with the same digits and isPercent
FormattedAgain == formatSignedValue(Str(fmtResult.text), fmtArgs.digits, fmtArgs.isPercent)
\* a negative number whose magnitude is below half a unit of the last digit kept
RoundsToNegativeZero(v, d) == v.neg /\ v.mag > 0 /\ v.mag < Unit \div (2 * Pow10(d))

\* C23 (as stated): for every finite number v, digits d and asPercent p,
\* formatSignedValue(formatSignedValue(v, d, p), d, p) = formatSignedValue(v, d, p).
C23_Idempotent == FormattedNumber => FormattedAgain = fmtResult
\* C23 (amended): formatting the result again returns it unchanged, except for
\* a negative number that rounds to zero: its text "-0.00.." is formatted again
\* as "+0.00..", the "-" replaced by "+".
C23_IdempotentButNegativeZero ==
    FormattedNumber =>
        /\ ~FormattedAgain.thrown
        /\ IF RoundsToNegativeZero(fmtArgs.val, fmtArgs.digits)
           THEN /\ startsWith(fmtResult.text, "-")
                /\ FormattedAgain.text = <<"+">> \o Tail(fmtResult.text)
           ELSE FormattedAgain = fmtResult
\* -0.0004 at two digits is "-0.00", and "-0.00" formatted again is "+0.00"
C23_Witness ==
    /\ FormattedNumber
    /\ fmtArgs = [val |-> Num(TRUE, 4 * (Unit \div 10000)), digits |-> 2, isPercent |-> FALSE]
    /\ fmtResult.text = <<"-", "0", ".", "0", "0">>
    /\ FormattedAgain.text = <<"+", "0", ".", "0", "0">>

====
